---- MODULE Spec2Model ----
(***************************************************************************)
(* A model of the two scripts of the repository:                           *)
(*   cfd_flow_animation.py           load_data, the four view composers    *)
(*                                   and the frame driver create_animation *)
(*   motorbike_mesh_visualisation.py load_motorbike_parts and the viewer   *)
(*                                                                         *)
(* The visualisation library is opaque.  The model records the calls the   *)
(* scripts issue (which subplot is active, which draw calls go to it,      *)
(* which camera values are assigned).  A file read, the creation of the    *)
(* plotter, open_movie, a composer's calls outside its try block,          *)
(* write_frame and getsize may raise, which ends the run.                  *)
(*                                                                         *)
(* File names are sequences of one-character strings, so that endswith is  *)
(* computed and not assumed.  Angles are exact rationals: the angle of     *)
(* frame i is AngleNum(i) / total_frames, an azimuth is                    *)
(* numerator / (10 * total_frames).  Floating-point rounding of the        *)
(* library's linspace is not modelled.                                     *)
(***************************************************************************)
EXTENDS Integers, Sequences, FiniteSets, TLC

VARIABLES
    program,        \* which script runs: "animation" or "viewer"
    pc,             \* position in the script
    error,          \* the call that raised and ended the run, "" if none
    directory,      \* file names under motorBike-VTK, in os.walk order
    fileIdx,        \* number of walked files already handled
    attempted,      \* names handed to pv.read as parts (history)
    nFailed,        \* part reads that raised (history)
    bike_parts,     \* the list built by the loader
    array_names,    \* volume_mesh.array_names
    bike_surface,   \* the combined surface returned by load_data
    nLoad,          \* completed calls of load_data (history)
    fps,
    duration,
    i,              \* loop index of create_animation
    active,         \* the plotter's active subplot
    cells,          \* per subplot: actors, background, camera
    calls,          \* composers called in this iteration (history)
    streamline,     \* outcome of the try block in this iteration
    nOpen,          \* open_movie calls that returned (history)
    nClose,         \* plotter.close calls that returned (history)
    framesWritten,  \* write_frame calls that returned (history)
    lastAngle,      \* AngleNum of the last committed frame, -1 if none
    azSum,          \* per cell: sum of the committed azimuths (history)
    azLast,         \* per cell: azimuth of the last committed frame
    progress,       \* progress lines printed: <<frame number, percent>>
    view,           \* viewer: the chosen view
    shown           \* viewer: colours of the meshes added before show()

vars == <<program, pc, error, directory, fileIdx, attempted, nFailed,
          bike_parts, array_names, bike_surface, nLoad, fps, duration, i,
          active, cells, calls, streamline, nOpen, nClose, framesWritten,
          lastAngle, azSum, azLast, progress, view, shown>>

loaderVars == <<directory, fileIdx, attempted, nFailed, bike_parts>>
movieVars == <<i, active, cells, calls, streamline, nOpen, nClose,
               framesWritten, lastAngle, azSum, azLast, progress>>
viewerVars == <<view, shown>>

(***************************************************************************)
(* Bounds of the model.                                                    *)
(***************************************************************************)
MaxFiles == 3
MaxFps == 4
MaxDuration == 4

(***************************************************************************)
(* The constants of create_animation.                                      *)
(***************************************************************************)
Fps == 20

Duration == 10

(***************************************************************************)
(* File names.                                                             *)
(***************************************************************************)
Suffix == <<"_", "5", "0", "0", ".", "v", "t", "k">>

MotorBike == <<"m", "o", "t", "o", "r", "B", "i", "k", "e">>

VolumeName == MotorBike \o Suffix

WheelName == <<"w">> \o Suffix

NamePool ==
    { VolumeName,
      WheelName,
      Suffix,
      <<"x">> \o VolumeName,
      VolumeName \o <<"k">>,
      <<"w", ".", "v", "t", "k">> }

endswith(s, suf) ==
    /\ Len(s) >= Len(suf)
    /\ SubSeq(s, Len(s) - Len(suf) + 1, Len(s)) = suf

SeqsUpTo(S, n) == UNION { [1..k -> S] : k \in 0..n }

AllDirectories == SeqsUpTo(NamePool, MaxFiles)

(***************************************************************************)
(* The loaders: the walk of both scripts.                                  *)
(***************************************************************************)
IsPartFileBroken(fname) == endswith(fname, Suffix)

IsPartFile(fname) == endswith(fname, Suffix) /\ fname # VolumeName

IsMotorbikePart(fname) == endswith(fname, Suffix) /\ fname # VolumeName

AfterFailedRead(idx, dir) == idx + 1

AfterFailedPartReadBroken(idx, dir) == Len(dir)

AfterFailedPartRead(idx, dir) == idx + 1

Abort(what) ==
    /\ pc' = "aborted"
    /\ error' = what

Main ==
    /\ program = "animation"
    /\ pc = "main"
    /\ pc' = "load_volume"
    /\ UNCHANGED <<program, error, loaderVars, array_names, bike_surface,
                   nLoad, fps, duration, movieVars, viewerVars>>

LoadVolume ==
    /\ pc = "load_volume"
    /\ \E ok \in BOOLEAN, names \in SUBSET {"U", "p", "k", "omega"} :
          IF ok
          THEN /\ array_names' = names
               /\ bike_parts' = <<>>
               /\ pc' = "walk"
               /\ UNCHANGED error
          ELSE /\ Abort("read_volume")
               /\ UNCHANGED <<array_names, bike_parts>>
    /\ UNCHANGED <<program, directory, fileIdx, attempted, nFailed,
                   bike_surface, nLoad, fps, duration, movieVars, viewerVars>>

LoadDataFile ==
    /\ pc = "walk"
    /\ fileIdx < Len(directory)
    /\ LET fname == directory[fileIdx + 1] IN
          IF IsPartFile(fname)
          THEN \E ok \in BOOLEAN :
                  /\ attempted' = Append(attempted, fname)
                  /\ IF ok
                     THEN /\ bike_parts' = Append(bike_parts, fname)
                          /\ fileIdx' = fileIdx + 1
                          /\ UNCHANGED nFailed
                     ELSE /\ nFailed' = nFailed + 1
                          /\ fileIdx' = AfterFailedRead(fileIdx, directory)
                          /\ UNCHANGED bike_parts
          ELSE /\ fileIdx' = fileIdx + 1
               /\ UNCHANGED <<attempted, nFailed, bike_parts>>
    /\ UNCHANGED <<program, pc, error, directory, array_names, bike_surface,
                   nLoad, fps, duration, movieVars, viewerVars>>

LoadDataReturn ==
    /\ pc = "walk"
    /\ fileIdx >= Len(directory)
    /\ bike_surface' = bike_parts
    /\ nLoad' = nLoad + 1
    /\ pc' = "plotter"
    /\ UNCHANGED <<program, error, loaderVars, array_names, fps, duration,
                   movieVars, viewerVars>>

(***************************************************************************)
(* The viewer script.                                                      *)
(***************************************************************************)
ViewOf(choice) ==
    CASE choice = "1" -> "simple"
      [] choice = "2" -> "detailed"
      [] choice = "3" -> "exploded"
      [] OTHER -> "simple"

part_colors ==
    <<"darkred", "darkgray", "black", "dimgray", "silver", "blue", "red",
      "brown", "navy", "darkslategray", "yellow", "gold">>

get_part_color(index) == part_colors[(index % Len(part_colors)) + 1]

exploded_colors ==
    <<"red", "blue", "green", "orange", "purple", "brown", "pink", "gray">>

ViewerMain ==
    /\ program = "viewer"
    /\ pc = "main"
    /\ \E choice \in {"1", "2", "3", "", "x"} : view' = ViewOf(choice)
    /\ bike_parts' = <<>>
    /\ pc' = "parts_walk"
    /\ UNCHANGED <<program, error, directory, fileIdx, attempted, nFailed,
                   array_names, bike_surface, nLoad, fps, duration,
                   movieVars, shown>>

LoadPartsFile ==
    /\ pc = "parts_walk"
    /\ fileIdx < Len(directory)
    /\ LET fname == directory[fileIdx + 1] IN
          IF IsMotorbikePart(fname)
          THEN \E ok \in BOOLEAN :
                  /\ attempted' = Append(attempted, fname)
                  /\ IF ok
                     THEN /\ bike_parts' = Append(bike_parts, fname)
                          /\ fileIdx' = fileIdx + 1
                          /\ UNCHANGED nFailed
                     ELSE /\ nFailed' = nFailed + 1
                          /\ fileIdx' = AfterFailedPartRead(fileIdx, directory)
                          /\ UNCHANGED bike_parts
          ELSE /\ fileIdx' = fileIdx + 1
               /\ UNCHANGED <<attempted, nFailed, bike_parts>>
    /\ UNCHANGED <<program, pc, error, directory, array_names, bike_surface,
                   nLoad, fps, duration, movieVars, viewerVars>>

LoadPartsReturn ==
    /\ pc = "parts_walk"
    /\ fileIdx >= Len(directory)
    /\ pc' = "show"
    /\ UNCHANGED <<program, error, loaderVars, array_names, bike_surface,
                   nLoad, fps, duration, movieVars, viewerVars>>

Show ==
    /\ pc = "show"
    /\ shown' =
          CASE view = "simple" -> <<"lightgray">>
            [] view = "detailed" ->
                  [k \in 1..Len(bike_parts) |-> get_part_color(k - 1)]
            [] view = "exploded" ->
                  [k \in 1..Len(bike_parts) |->
                      exploded_colors[((k - 1) % Len(exploded_colors)) + 1]]
    /\ pc' = "done"
    /\ UNCHANGED <<program, error, loaderVars, array_names, bike_surface,
                   nLoad, fps, duration, movieVars, view>>

(***************************************************************************)
(* Subplots.                                                               *)
(***************************************************************************)
Cells == {<<0, 0>>, <<0, 1>>, <<1, 0>>, <<1, 1>>}

EmptyCell == [actors |-> <<>>, background |-> "", azimuth |-> 0,
              elevation |-> 0, zoom |-> 10]

InitWith(prog, dirs, configs) ==
    /\ program = prog
    /\ pc = "main"
    /\ error = ""
    /\ directory \in dirs
    /\ fileIdx = 0
    /\ attempted = <<>>
    /\ nFailed = 0
    /\ bike_parts = <<>>
    /\ array_names = {}
    /\ bike_surface = <<>>
    /\ nLoad = 0
    /\ \E cfg \in configs : fps = cfg[1] /\ duration = cfg[2]
    /\ i = 0
    /\ active = <<0, 0>>
    /\ cells = [c \in Cells |-> EmptyCell]
    /\ calls = <<>>
    /\ streamline = "none"
    /\ nOpen = 0
    /\ nClose = 0
    /\ framesWritten = 0
    /\ lastAngle = -1
    /\ azSum = [c \in Cells |-> 0]
    /\ azLast = [c \in Cells |-> 0]
    /\ progress = <<>>
    /\ view = ""
    /\ shown = <<>>

(***************************************************************************)
(* Draw calls.  Opacities, zoom factors and slice offsets are in tenths;   *)
(* a slice origin is the field's centre plus an offset, the ground slice's *)
(* height being absolute.                                                  *)
(***************************************************************************)
Text(title, frame) ==
    [call |-> "add_text", obj |-> title, origin |-> <<>>, normal |-> <<>>,
     scalars |-> "", cmap |-> "", color |-> "black", opacity |-> 10,
     frame |-> frame]

Slice(name, origin, normal, scalars, cmap, opacity, frame) ==
    [call |-> "add_mesh", obj |-> name, origin |-> origin, normal |-> normal,
     scalars |-> scalars, cmap |-> cmap, color |-> "", opacity |-> opacity,
     frame |-> frame]

Surface(color, opacity, frame) ==
    [call |-> "add_mesh", obj |-> "bike_surface", origin |-> <<>>,
     normal |-> <<>>, scalars |-> "", cmap |-> "", color |-> color,
     opacity |-> opacity, frame |-> frame]

ScalarBar(title, frame) ==
    [call |-> "add_scalar_bar", obj |-> title, origin |-> <<>>,
     normal |-> <<>>, scalars |-> "", cmap |-> "", color |-> "",
     opacity |-> 10, frame |-> frame]

Streamlines(frame) ==
    [call |-> "add_mesh", obj |-> "streamlines", origin |-> <<-30, 0, 0>>,
     normal |-> <<>>, scalars |-> "U", cmap |-> "rainbow", color |-> "",
     opacity |-> 9, frame |-> frame]

Centre(dx, dy, dz) == <<<<"center", dx>>, <<"center", dy>>, <<"center", dz>>>>

(***************************************************************************)
(* The animation sequence: np.linspace(0, 360, total_frames,               *)
(* endpoint=False)[frame] = AngleNum(frame) / total_frames.                *)
(***************************************************************************)
total_frames == fps * duration

AngleNumShifted(frame) == 360 * (frame + 1)

AngleNum(frame) == 360 * frame

(***************************************************************************)
(* The azimuth multipliers in tenths, and the azimuth a composer assigns:  *)
(* numerator over 10 * total_frames.                                       *)
(***************************************************************************)
VelocityCell == <<0, 0>>

PressureCell == <<0, 1>>

MeshCell == <<1, 0>>

FlowCell == <<1, 1>>

VelocityMult == 5

PressureMult == 5

MeshMult == 10

FlowMult == 3

Camera(cell, background, azimuth, elevation, zoom) ==
    [cell EXCEPT !.background = background, !.azimuth = azimuth,
                 !.elevation = elevation, !.zoom = zoom]

AddAll(cell, draws) == [cell EXCEPT !.actors = cell.actors \o draws]

(***************************************************************************)
(* setup_velocity_view, setup_pressure_view, setup_mesh_view: the state    *)
(* of the composer's subplot after the call.                               *)
(***************************************************************************)
setup_velocity_view(cell, angle, frame) ==
    Camera(
        AddAll(cell,
            << Text("Velocity Field (m/s)", frame),
               Slice("slice_long", Centre(0, 0, 0), <<0, 1, 0>>, "U", "jet",
                     9, frame),
               Slice("slice_wake", Centre(10, 0, 0), <<1, 0, 0>>, "U",
                     "coolwarm", 6, frame),
               Slice("slice_ground",
                     <<<<"center", 0>>, <<"center", 0>>, <<"abs", 8>>>>,
                     <<0, 0, 1>>, "U", "plasma", 4, frame),
               Surface("silver", 7, frame),
               ScalarBar("Velocity", frame) >>),
        "white", VelocityMult * angle, 20, 12)

setup_pressure_view(cell, angle, frame) ==
    Camera(
        AddAll(cell,
            << Text("Pressure Field (Pa)", frame),
               Slice("slice_back", Centre(5, 0, 0), <<1, 0, 0>>, "p",
                     "coolwarm", 9, frame),
               Slice("slice_front", Centre(-5, 0, 0), <<1, 0, 0>>, "p",
                     "RdBu", 6, frame),
               Surface("darkgray", 5, frame),
               ScalarBar("Pressure", frame) >>),
        "white", PressureMult * angle, 20, 12)

setup_mesh_view(cell, angle, frame) ==
    Camera(
        AddAll(cell,
            << Text("Motorbike Geometry", frame),
               Surface("silver", 9, frame) >>),
        "white", MeshMult * angle, 25, 13)

(***************************************************************************)
(* setup_flow_analysis: the attribute of the wake slice, and the outcome   *)
(* of the try block around the streamlines.                                *)
(***************************************************************************)
FlowAttributeKFirst(names) ==
    IF "k" \in names
    THEN [scalars |-> "k", cmap |-> "hot", field_name |-> "Turbulent Energy"]
    ELSE IF "omega" \in names
    THEN [scalars |-> "omega", cmap |-> "turbo", field_name |-> "Turbulence"]
    ELSE [scalars |-> "U", cmap |-> "viridis", field_name |-> "Velocity"]

FlowAttribute(names) ==
    IF "omega" \in names
    THEN [scalars |-> "omega", cmap |-> "turbo", field_name |-> "Turbulence"]
    ELSE IF "k" \in names
    THEN [scalars |-> "k", cmap |-> "hot", field_name |-> "Turbulent Energy"]
    ELSE [scalars |-> "U", cmap |-> "viridis", field_name |-> "Velocity"]

StreamlineOutcomeUncaught(ok) == IF ok THEN "added" ELSE "raised"

StreamlineOutcome(ok) == IF ok THEN "added" ELSE "skipped"

setup_flow_analysis(cell, names, angle, frame, outcome) ==
    LET attr == FlowAttribute(names) IN
    Camera(
        AddAll(cell,
            << Text("Flow Analysis & Wake", frame),
               Slice("wake_slice", Centre(20, 0, 0), <<1, 0, 0>>,
                     attr.scalars, attr.cmap, 8, frame) >>
            \o (IF outcome = "added" THEN <<Streamlines(frame)>> ELSE <<>>)
            \o << Surface("darkblue", 6, frame),
                  ScalarBar(attr.field_name, frame) >>),
        "lightgray", FlowMult * angle, 15, 10)

(***************************************************************************)
(* create_animation, the frame driver.                                     *)
(***************************************************************************)
LoopBodyWriteEarly ==
    <<"clear", "velocity", "pressure", "mesh", "write", "flow", "progress">>

LoopBody ==
    <<"clear", "velocity", "pressure", "mesh", "flow", "write", "progress">>

StageAfter(stage) ==
    LoopBody[(CHOOSE k \in 1..Len(LoopBody) : LoopBody[k] = stage) + 1]

CreatePlotter ==
    /\ pc = "plotter"
    /\ \E ok \in BOOLEAN :
          IF ok
          THEN /\ cells' = [c \in Cells |-> EmptyCell]
               /\ active' = <<0, 0>>
               /\ pc' = "open_movie"
               /\ UNCHANGED error
          ELSE /\ Abort("Plotter")
               /\ UNCHANGED <<cells, active>>
    /\ UNCHANGED <<program, loaderVars, array_names, bike_surface, nLoad,
                   fps, duration, i, calls, streamline, nOpen, nClose,
                   framesWritten, lastAngle, azSum, azLast, progress,
                   viewerVars>>

OpenMovie ==
    /\ pc = "open_movie"
    /\ \E ok \in BOOLEAN :
          IF ok
          THEN /\ nOpen' = nOpen + 1
               /\ i' = 0
               /\ pc' = IF total_frames > 0 THEN LoopBody[1] ELSE "close"
               /\ UNCHANGED error
          ELSE /\ Abort("open_movie")
               /\ UNCHANGED <<nOpen, i>>
    /\ UNCHANGED <<program, loaderVars, array_names, bike_surface, nLoad,
                   fps, duration, active, cells, calls, streamline, nClose,
                   framesWritten, lastAngle, azSum, azLast, progress,
                   viewerVars>>

ClearCellKeeps(cell) == cell

ClearCell(cell) == [cell EXCEPT !.actors = <<>>]

ClearSubplots ==
    /\ pc = "clear"
    /\ cells' = [c \in Cells |-> ClearCell(cells[c])]
    /\ active' = <<1, 1>>
    /\ calls' = <<>>
    /\ streamline' = "none"
    /\ pc' = StageAfter("clear")
    /\ UNCHANGED <<program, error, loaderVars, array_names, bike_surface,
                   nLoad, fps, duration, i, nOpen, nClose, framesWritten,
                   lastAngle, azSum, azLast, progress, viewerVars>>

ComposerUnchanged ==
    UNCHANGED <<program, loaderVars, array_names, bike_surface, nLoad, fps,
                duration, i, nOpen, nClose, framesWritten, lastAngle, azSum,
                azLast, progress, viewerVars>>

SetupVelocity ==
    /\ pc = "velocity"
    /\ \E ok \in BOOLEAN :
          IF ok
          THEN /\ active' = VelocityCell
               /\ cells' = [cells EXCEPT ![VelocityCell] =
                               setup_velocity_view(@, AngleNum(i), i)]
               /\ calls' = Append(calls, <<"velocity", AngleNum(i)>>)
               /\ pc' = StageAfter("velocity")
               /\ UNCHANGED error
          ELSE /\ Abort("setup_velocity_view")
               /\ UNCHANGED <<active, cells, calls>>
    /\ UNCHANGED streamline
    /\ ComposerUnchanged

SetupPressure ==
    /\ pc = "pressure"
    /\ \E ok \in BOOLEAN :
          IF ok
          THEN /\ active' = PressureCell
               /\ cells' = [cells EXCEPT ![PressureCell] =
                               setup_pressure_view(@, AngleNum(i), i)]
               /\ calls' = Append(calls, <<"pressure", AngleNum(i)>>)
               /\ pc' = StageAfter("pressure")
               /\ UNCHANGED error
          ELSE /\ Abort("setup_pressure_view")
               /\ UNCHANGED <<active, cells, calls>>
    /\ UNCHANGED streamline
    /\ ComposerUnchanged

SetupMesh ==
    /\ pc = "mesh"
    /\ \E ok \in BOOLEAN :
          IF ok
          THEN /\ active' = MeshCell
               /\ cells' = [cells EXCEPT ![MeshCell] =
                               setup_mesh_view(@, AngleNum(i), i)]
               /\ calls' = Append(calls, <<"mesh", AngleNum(i)>>)
               /\ pc' = StageAfter("mesh")
               /\ UNCHANGED error
          ELSE /\ Abort("setup_mesh_view")
               /\ UNCHANGED <<active, cells, calls>>
    /\ UNCHANGED streamline
    /\ ComposerUnchanged

SetupFlow ==
    /\ pc = "flow"
    /\ \E rest \in {"ok", "raises_before_try", "raises_after_try"},
          streamOk \in BOOLEAN :
          LET outcome == StreamlineOutcome(streamOk) IN
          IF rest = "raises_before_try"
          THEN /\ Abort("setup_flow_analysis")
               /\ UNCHANGED <<active, cells, calls, streamline>>
          ELSE IF outcome = "raised"
          THEN /\ Abort("streamlines")
               /\ streamline' = outcome
               /\ UNCHANGED <<active, cells, calls>>
          ELSE IF rest = "raises_after_try"
          THEN /\ Abort("setup_flow_analysis")
               /\ streamline' = outcome
               /\ UNCHANGED <<active, cells, calls>>
          ELSE /\ active' = FlowCell
               /\ cells' = [cells EXCEPT ![FlowCell] =
                               setup_flow_analysis(@, array_names,
                                                   AngleNum(i), i, outcome)]
               /\ calls' = Append(calls, <<"flow", AngleNum(i)>>)
               /\ streamline' = outcome
               /\ pc' = StageAfter("flow")
               /\ UNCHANGED error
    /\ ComposerUnchanged

WriteFrame ==
    /\ pc = "write"
    /\ \E ok \in BOOLEAN :
          IF ok
          THEN /\ framesWritten' = framesWritten + 1
               /\ lastAngle' = AngleNum(i)
               /\ azSum' = [c \in Cells |-> azSum[c] + cells[c].azimuth]
               /\ azLast' = [c \in Cells |-> cells[c].azimuth]
               /\ pc' = StageAfter("write")
               /\ UNCHANGED error
          ELSE /\ Abort("write_frame")
               /\ UNCHANGED <<framesWritten, lastAngle, azSum, azLast>>
    /\ UNCHANGED <<program, loaderVars, array_names, bike_surface, nLoad,
                   fps, duration, i, active, cells, calls, streamline, nOpen,
                   nClose, progress, viewerVars>>

(***************************************************************************)
(* The progress line: f"{((i + 1) / total_frames) * 100:.0f}" rounds to    *)
(* the nearest integer, ties to even.                                      *)
(***************************************************************************)
Percent(n, total) ==
    LET q == (100 * n) \div total
        r == (100 * n) % total
    IN  IF 2 * r < total THEN q
        ELSE IF 2 * r > total THEN q + 1
        ELSE IF q % 2 = 0 THEN q ELSE q + 1

ProgressDivisorRoundedUp(total) == (total + 9) \div 10

ProgressDivisor(total) == total \div 10

ProgressDueOffByOne(idx, divisor) == idx % divisor = 0

ProgressDue(idx, divisor) == (idx + 1) % divisor = 0

ProgressCheck ==
    /\ pc = "progress"
    /\ IF ProgressDivisor(total_frames) = 0
       THEN /\ Abort("ZeroDivisionError")
            /\ UNCHANGED <<progress, i>>
       ELSE /\ progress' =
                  IF ProgressDue(i, ProgressDivisor(total_frames))
                  THEN Append(progress,
                              <<i + 1, Percent(i + 1, total_frames)>>)
                  ELSE progress
            /\ i' = i + 1
            /\ pc' = IF i + 1 < total_frames THEN LoopBody[1] ELSE "close"
            /\ UNCHANGED error
    /\ UNCHANGED <<program, loaderVars, array_names, bike_surface, nLoad,
                   fps, duration, active, cells, calls, streamline, nOpen,
                   nClose, framesWritten, lastAngle, azSum, azLast,
                   viewerVars>>

Close ==
    /\ pc = "close"
    /\ nClose' = nClose + 1
    /\ pc' = "report"
    /\ UNCHANGED <<program, error, loaderVars, array_names, bike_surface,
                   nLoad, fps, duration, i, active, cells, calls, streamline,
                   nOpen, framesWritten, lastAngle, azSum, azLast, progress,
                   viewerVars>>

Report ==
    /\ pc = "report"
    /\ \E ok \in BOOLEAN :
          IF ok
          THEN pc' = "done" /\ UNCHANGED error
          ELSE Abort("getsize")
    /\ UNCHANGED <<program, loaderVars, array_names, bike_surface, nLoad,
                   fps, duration, movieVars, viewerVars>>

(***************************************************************************)
(* The animation script: the constants of the source, and small frame      *)
(* counts on both sides of ten.                                            *)
(***************************************************************************)
Configs == {<<Fps, Duration>>} \cup ((1..MaxFps) \X (0..MaxDuration))

AnimationDirectories == {<<VolumeName>>, <<VolumeName, WheelName>>}

Init == InitWith("animation", AnimationDirectories, Configs)

Next ==
    \/ Main
    \/ LoadVolume
    \/ LoadDataFile
    \/ LoadDataReturn
    \/ CreatePlotter
    \/ OpenMovie
    \/ ClearSubplots
    \/ SetupVelocity
    \/ SetupPressure
    \/ SetupMesh
    \/ SetupFlow
    \/ WriteFrame
    \/ ProgressCheck
    \/ Close
    \/ Report

Spec == Init /\ [][Next]_vars

(***************************************************************************)
(* The loaders of both scripts, over every directory content.              *)
(***************************************************************************)
InitLoad ==
    \E prog \in {"animation", "viewer"} :
        InitWith(prog, AllDirectories, {<<Fps, Duration>>})

NextLoad ==
    \/ Main
    \/ LoadVolume
    \/ LoadDataFile
    \/ LoadDataReturn
    \/ ViewerMain
    \/ LoadPartsFile
    \/ LoadPartsReturn
    \/ Show

SpecLoad == InitLoad /\ [][NextLoad]_vars

(***************************************************************************)
(* Properties, checked under Spec unless SpecLoad is named.                *)
(***************************************************************************)
FixedConfig == fps = Fps /\ duration = Duration

\* C1: with fps = 20 and duration = 10 the progress line is printed exactly
\* after the frames numbered 20, 40, ..., 200 and after no other frame, with
\* the percentages 10, 20, ..., 100: ten lines in a finished run, the last
\* one 100%.
C1_ProgressLines ==
    FixedConfig =>
        /\ progress = [k \in 1..(i \div 20) |-> <<20 * k, 10 * k>>]
        /\ pc \in {"close", "report", "done"} =>
              /\ Len(progress) = 10
              /\ progress[10] = <<200, 100>>

C1_Witness ==
    /\ FixedConfig
    /\ pc = "done"
    /\ Len(progress) = 10
    /\ progress[1] = <<20, 10>>

C2_Mult(c) ==
    CASE c = <<1, 0>> -> 10
      [] c = <<0, 0>> -> 5
      [] c = <<0, 1>> -> 5
      [] c = <<1, 1>> -> 3

\* C2 as stated: after the 200 frames of the fixed configuration every
\* cell's azimuth sums to its multiplier times 360 degrees, read either as
\* the sum of the committed azimuths or as the azimuth reached at the last
\* frame (azimuths are numerators over 10 * total_frames).
C2_SumsToFullRotation ==
    (FixedConfig /\ pc = "done") =>
        \/ \A c \in Cells : azSum[c] = C2_Mult(c) * 360 * total_frames
        \/ \A c \in Cells : azLast[c] = C2_Mult(c) * 360 * total_frames

\* C2 amended: frame n (from 0) is committed with azimuth multiplier * n *
\* 360 / F in each cell, so the last of F frames has multiplier * 360 *
\* (F - 1) / F (358.2, 179.1, 179.1 and 107.46 degrees for F = 200) and the
\* committed azimuths sum to multiplier * 180 * (F - 1).
C2_StepsOfFullRotation ==
    /\ framesWritten >= 1 =>
          \A c \in Cells :
              /\ azLast[c] = C2_Mult(c) * 360 * (framesWritten - 1)
              /\ 2 * azSum[c] =
                    C2_Mult(c) * 360 * framesWritten * (framesWritten - 1)
    /\ (FixedConfig /\ pc = "done") =>
          /\ framesWritten = 200
          /\ azLast[<<1, 0>>] * 10 = 3582 * 10 * total_frames
          /\ azLast[<<0, 0>>] * 10 = 1791 * 10 * total_frames
          /\ azLast[<<0, 1>>] * 10 = 1791 * 10 * total_frames
          /\ azLast[<<1, 1>>] * 100 = 10746 * 10 * total_frames

C2_Witness ==
    /\ FixedConfig
    /\ pc = "done"
    /\ azLast[<<1, 0>>] = 716400

C3_FlowCellShows(scalars, cmap, title) ==
    LET actors == cells[<<1, 1>>].actors
        wakes == {k \in 1..Len(actors) : actors[k].obj = "wake_slice"}
        bars == {k \in 1..Len(actors) : actors[k].call = "add_scalar_bar"}
    IN  /\ Cardinality(wakes) = 1
        /\ Cardinality(bars) = 1
        /\ \A k \in wakes :
              actors[k].scalars = scalars /\ actors[k].cmap = cmap
        /\ \A k \in bars : actors[k].obj = title

\* C3: the wake slice of the flow-analysis cell is coloured by omega when
\* the field has it (also when it has k), else by k when the field has it,
\* else by U, and the colour map and legend title are those of the chosen
\* attribute; a field with U and p only gives viridis and "Velocity".
C3_AttributePriority ==
    (pc = "write" /\ Len(calls) = 4) =>
        /\ "omega" \in array_names =>
              C3_FlowCellShows("omega", "turbo", "Turbulence")
        /\ ("omega" \notin array_names /\ "k" \in array_names) =>
              C3_FlowCellShows("k", "hot", "Turbulent Energy")
        /\ ("omega" \notin array_names /\ "k" \notin array_names) =>
              C3_FlowCellShows("U", "viridis", "Velocity")

C3_Witness ==
    /\ pc = "write"
    /\ array_names = {"U", "p", "k", "omega"}
    /\ C3_FlowCellShows("omega", "turbo", "Turbulence")

C4_FlowCellWithoutStreamlines ==
    LET cell == cells[<<1, 1>>]
        actors == cell.actors
    IN  /\ Len(actors) = 4
        /\ actors[1].call = "add_text"
        /\ actors[2].obj = "wake_slice"
        /\ actors[3].obj = "bike_surface"
        /\ actors[4].call = "add_scalar_bar"
        /\ \A k \in 1..4 : actors[k].obj # "streamlines"
        /\ cell.background = "lightgray"
        /\ cell.azimuth = 3 * 360 * actors[1].frame
        /\ cell.elevation = 15
        /\ cell.zoom = 10

\* C4: a failure inside the streamline block never ends the run: when the
\* block failed and no other call of setup_flow_analysis raised, the call
\* returned, the cell holds the title, the wake slice, the bike surface and
\* the legend with background and camera set and no streamlines, and the
\* driver is at write_frame for that frame or past it.
C4_StreamlineFailureContained ==
    /\ error # "streamlines"
    /\ (streamline = "skipped" /\ error # "setup_flow_analysis") =>
          /\ C4_FlowCellWithoutStreamlines
          /\ Len(calls) = 4
          /\ LET frame == cells[<<1, 1>>].actors[1].frame IN
                \/ pc = "write" /\ frame = i
                \/ framesWritten = frame + 1
                \/ pc = "aborted" /\ error = "write_frame"

C4_Witness ==
    /\ streamline = "skipped"
    /\ pc = "progress"
    /\ framesWritten = i + 1
    /\ C4_FlowCellWithoutStreamlines

NameHasSuffix(fname) ==
    \E n \in 0..Len(fname) : fname = SubSeq(fname, 1, n) \o Suffix

DiscoveredName(fname) == NameHasSuffix(fname) /\ fname # VolumeName

\* C5: the part list has as many entries as part files were discovered
\* among the walked files minus the reads that failed; a failed read skips
\* that file only, so once the walk is over every discovered file has been
\* attempted, and the part count never exceeds the discovered count.
C5_PartCount ==
    LET walked == SubSeq(directory, 1, fileIdx)
        discovered == {k \in 1..Len(directory) : DiscoveredName(directory[k])}
        seen == {k \in 1..Len(walked) : DiscoveredName(walked[k])}
    IN  /\ fileIdx <= Len(directory)
        /\ Len(attempted) = Cardinality(seen)
        /\ Len(bike_parts) = Len(attempted) - nFailed
        /\ Len(bike_parts) <= Cardinality(discovered)
        /\ pc \in {"plotter", "show", "done"} =>
              /\ fileIdx = Len(directory)
              /\ Len(bike_parts) = Cardinality(discovered) - nFailed

C5_Witness ==
    /\ pc \in {"plotter", "show"}
    /\ nFailed = 1
    /\ Len(attempted) = 3
    /\ Len(bike_parts) = 2

\* C6: a file is read as a part only if its name ends with _500.vtk and is
\* not motorBike_500.vtk, and every other walked file whose name ends with
\* _500.vtk is read as a part, in walk order.
C6_VolumeFileExcluded ==
    /\ \A k \in 1..Len(attempted) :
          attempted[k] # VolumeName /\ NameHasSuffix(attempted[k])
    /\ \A k \in 1..Len(bike_parts) : bike_parts[k] # VolumeName
    /\ fileIdx <= Len(directory) =>
          attempted = SelectSeq(SubSeq(directory, 1, fileIdx), DiscoveredName)

C6_Witness ==
    /\ pc \in {"plotter", "show"}
    /\ \E k \in 1..Len(directory) : directory[k] = VolumeName
    /\ \E k \in 1..Len(bike_parts) : bike_parts[k] = <<"x">> \o VolumeName

C7_Composers == <<"velocity", "pressure", "mesh", "flow">>

C7_Called(n) == [k \in 1..n |-> <<C7_Composers[k], 360 * i>>]

\* C7: the data is loaded once and the encoder opened once before the first
\* frame; every iteration clears the four cells, calls the velocity,
\* pressure, geometry and flow-analysis composers in that order with the
\* angle of the iteration and then commits one frame; the encoder is closed
\* once, after the last commit.  A finished run has committed total_frames
\* frames (200 for the fixed configuration) in strictly increasing angle
\* order, none before open or after close.
C7_EventOrder ==
    /\ nLoad <= 1 /\ nOpen <= 1 /\ nClose <= 1
    /\ nOpen = 1 => nLoad = 1
    /\ framesWritten >= 1 => nOpen = 1
    /\ nClose = 1 => framesWritten = total_frames
    /\ framesWritten <= total_frames
    /\ lastAngle = IF framesWritten = 0 THEN -1 ELSE 360 * (framesWritten - 1)
    /\ pc \in {"clear", "velocity", "pressure", "mesh", "flow", "write",
               "progress"} =>
          nLoad = 1 /\ nOpen = 1 /\ nClose = 0 /\ i < total_frames
    /\ pc \in {"clear", "velocity", "pressure", "mesh", "flow", "write"} =>
          framesWritten = i
    /\ pc = "velocity" =>
          calls = <<>> /\ \A c \in Cells : cells[c].actors = <<>>
    /\ pc = "pressure" => calls = C7_Called(1)
    /\ pc = "mesh" => calls = C7_Called(2)
    /\ pc = "flow" => calls = C7_Called(3)
    /\ pc = "write" => calls = C7_Called(4)
    /\ pc = "progress" => calls = C7_Called(4) /\ framesWritten = i + 1
    /\ pc = "done" =>
          /\ nLoad = 1 /\ nOpen = 1 /\ nClose = 1
          /\ framesWritten = total_frames
          /\ FixedConfig => framesWritten = 200

C7_Witness ==
    /\ FixedConfig
    /\ pc = "done"
    /\ framesWritten = 200
    /\ lastAngle = 360 * 199
    /\ nClose = 1

C8_CellHolds(c, title, counts, mult) ==
    LET actors == cells[c].actors IN
    /\ Len(actors) \in counts
    /\ actors[1] = Text(title, i)
    /\ \A k \in 1..Len(actors) :
          /\ actors[k].frame = i
          /\ k > 1 => actors[k].call # "add_text"
    /\ cells[c].azimuth = mult * 360 * i

C8_AtCommit ==
    pc = "write" =>
        /\ C8_CellHolds(<<0, 0>>, "Velocity Field (m/s)", {6}, 5)
        /\ C8_CellHolds(<<0, 1>>, "Pressure Field (Pa)", {5}, 5)
        /\ C8_CellHolds(<<1, 0>>, "Motorbike Geometry", {2}, 10)
        /\ C8_CellHolds(<<1, 1>>, "Flow Analysis & Wake", {4, 5}, 3)

C8_OwnCellOnly ==
    \A c \in Cells :
        cells'[c] # cells[c] =>
            \/ pc \in {"plotter", "clear"}
            \/ pc = "velocity" /\ c = <<0, 0>>
            \/ pc = "pressure" /\ c = <<0, 1>>
            \/ pc = "mesh" /\ c = <<1, 0>>
            \/ pc = "flow" /\ c = <<1, 1>>

\* C8: at every frame commit each cell holds exactly what its own composer
\* added in this iteration for this angle (velocity in (0,0), pressure in
\* (0,1), geometry in (1,0), flow analysis in (1,1)), nothing of an earlier
\* iteration, and a composer changes no cell but its own.
C8_NoLeakBetweenFrames == []C8_AtCommit /\ [][C8_OwnCellOnly]_vars

C8_Witness ==
    /\ pc = "write"
    /\ i >= 2
    /\ \A c \in Cells : cells[c].actors # <<>>
    /\ \A c \in Cells : cells[c].actors[1].frame = i

\* C9: in every run in which the movie encoder was opened it has been
\* closed when the run has ended, also when a composer or the frame commit
\* raised in the middle of the loop (stated for the constants of the
\* source, fps = 20 and duration = 10).
C9_EncoderReleased ==
    (FixedConfig /\ pc \in {"done", "aborted"}) => nClose = nOpen

\* C10: with 1 <= total_frames < 10 the divisor of the progress check is 0:
\* the run never gets past the progress check of the first iteration, which
\* raises ZeroDivisionError after the first frame was committed and before
\* the encoder is closed; with total_frames >= 10 (200 for the fixed
\* configuration, divisor 20) the check never raises.
C10_ProgressDivisor ==
    /\ total_frames \in 1..9 =>
          /\ i = 0
          /\ framesWritten <= 1
          /\ nClose = 0
          /\ pc \notin {"close", "report", "done"}
          /\ framesWritten = 1 =>
                \/ pc = "progress"
                \/ pc = "aborted" /\ error = "ZeroDivisionError"
    /\ error = "ZeroDivisionError" =>
          /\ total_frames \in 1..9
          /\ framesWritten = 1
          /\ nOpen = 1
          /\ nClose = 0
    /\ total_frames >= 10 => error # "ZeroDivisionError"

C10_Witness ==
    /\ total_frames = 9
    /\ pc = "aborted"
    /\ error = "ZeroDivisionError"
    /\ framesWritten = 1
    /\ nOpen = 1
    /\ nClose = 0

====
